---- MODULE Spec2Model ----
(***************************************************************************)
(* NodeQml::EnginePrivate (src/src/nodeqml/engine.cpp): the timer tables,   *)
(* the nextTick wake-ups in the host's posted-event list, the module cache  *)
(* and the process-wide engine registry, as state machines.                 *)
(***************************************************************************)
EXTENDS Integers, Sequences, FiniteSets, TLC

\* ---------------------------------------------------------------- bounds
MaxTimerId == 2     \* the host hands out timer ids 1..MaxTimerId
MaxRegs == 3        \* callbacks accepted by setTimeout/setInterval/nextTick in a run
MaxQueue == 2       \* length of the host's posted-event list

\* ------------------------------------------------------- program constants
INT_MAX == 2147483647

TimerIds == 1..MaxTimerId
Delays == {0, 1}
OtherPriorities == {0}
Tokens == 1..MaxRegs

VARIABLES
    m_timeoutCallbacks,   \* QHash<int, callback>: one-shot table
    m_intervalCallbacks,  \* QHash<int, callback>: repeating table
    runningTimers,        \* the QObject's live host timers: id -> interval
    postEventList,        \* the host's posted events, head first
    insertionOffset,      \* events of the list committed to the running dispatch pass
    loop,                 \* the part of a loop iteration the host is in
    eligible,             \* live timers that can still expire in this iteration
    cur,                  \* the synchronous script stack in progress, if any
    ret,                  \* outcome of the latest API call of the stack
    regs,                 \* history: the token the next accepted callback gets
    stackRegs,            \* history: the tokens accepted during the latest stack
    invoked,              \* history: each token was invoked never, once or again
    cancelled,            \* history: tokens of the one-shots a clearTimeout call named
    ignored               \* history: the latest timer event of this iteration was left unhandled

VARIABLES
    m_nodeEngines,        \* QHash<QV4::ExecutionEngine *, EnginePrivate *>, process-wide
    m_v4,                 \* the host engine of each wrapper constructed, by wrapper
    alive,                \* the wrappers constructed and not yet destroyed
    found,                \* the wrapper the latest EnginePrivate::get returned
    exception             \* what the latest throwErrnoException left behind

VARIABLES
    m_cachedModules,      \* QHash<QString, ModuleObject *>
    frames,               \* the module bodies in execution, outermost first
    created,              \* number of module objects allocated
    loaded,               \* module objects whose body has finished
    requireRet,           \* outcome of the latest require call
    executions,           \* history: each identifier's body ran never, once or again
    results               \* history: the exports references require returned, and how
                          \* many calls returned (none, one, more), by identifier

registryVars == <<m_nodeEngines, m_v4, alive, found, exception>>
moduleVars == <<m_cachedModules, frames, created, loaded, requireRet, executions, results>>

timerVars == <<m_timeoutCallbacks, m_intervalCallbacks, runningTimers, postEventList,
               insertionOffset, loop, eligible, cur, ret, regs, stackRegs, invoked,
               cancelled, ignored>>

\* ---------------------------------------------------------------- helpers
Remove(f, k) == [x \in DOMAIN f \ {k} |-> f[x]]
Insert(f, k, v) == [x \in DOMAIN f \cup {k} |-> IF x = k THEN v ELSE f[x]]

Idle == [kind |-> "none", cb |-> 0]
NoRet == [exc |-> "none", value |-> 0]
Returned(v) == [exc |-> "none", value |-> v]
Thrown(e) == [exc |-> e, value |-> 0]

\* m_v4->throwError / m_v4->throwTypeError: the call returns with an exception
\* of that type pending; msg is its message after the "<function>: " prefix.
throwError(message) == [exc |-> "Error", msg |-> message, value |-> 0]
throwTypeError(message) == [exc |-> "TypeError", msg |-> message, value |-> 0]

\* A callback is accepted: it gets the next token, and the running stack owns it.
nextToken == regs
Register ==
    /\ regs <= MaxRegs
    /\ regs' = regs + 1
    /\ stackRegs' = stackRegs \cup {nextToken}
NoRegister == UNCHANGED <<regs, stackRegs>>

\* ------------------------------------------------------------- host timers
\* QObject::startTimer: 0 when no timer can be had, else an id that is not live.
startTimer(delay) ==
    IF delay < 0 \/ TimerIds \ DOMAIN runningTimers = {}
    THEN {0}
    ELSE TimerIds \ DOMAIN runningTimers

\* QObject::killTimer: stops the object's timer; an id that is not live is left alone.
killTimer(timerId) ==
    /\ runningTimers' = Remove(runningTimers, timerId)
    /\ eligible' = eligible \ {timerId}
noKillTimer == UNCHANGED <<runningTimers, eligible>>

\* ------------------------------------------------------- posted-event list
\* QCoreApplication::postEvent: the list is kept in descending priority order,
\* equal priorities in posting order; an event posted while a dispatch pass runs
\* is placed behind the events committed to that pass.
InsertAt(list, i, e) == SubSeq(list, 1, i) \o <<e>> \o SubSeq(list, i + 1, Len(list))

UpperBound(list, from, priority) ==
    LET later == {i \in (from + 1)..Len(list) : list[i].priority < priority}
    IN  IF later = {} THEN Len(list)
        ELSE (CHOOSE i \in later : \A j \in later : i <= j) - 1

PostEventBeforeEqual(list, offset, e) ==
    LET later == {i \in (offset + 1)..Len(list) : list[i].priority <= e.priority}
    IN  IF later = {} THEN Append(list, e)
        ELSE InsertAt(list, (CHOOSE i \in later : \A j \in later : i <= j) - 1, e)

postEvent(list, offset, e) == InsertAt(list, UpperBound(list, offset, e.priority), e)

\* An event carries, as history, the number of callbacks accepted when it was
\* posted: a NextTickEvent's stamp is its callback's token.
NextTickEventNormalPriority(callback) ==
    [type |-> "NextTick", callback |-> callback, priority |-> 0, stamp |-> callback]

NextTickEvent(callback) ==
    [type |-> "NextTick", callback |-> callback, priority |-> INT_MAX, stamp |-> callback]
OtherEvent(priority) ==
    [type |-> "Other", callback |-> 0, priority |-> priority, stamp |-> nextToken]

\* ------------------------------------------------------------ script calls
\* The numbers a script can pass.  A 32-bit integer n is Int32(n); the other
\* numbers are written by the 32-bit integer that is left of them once the
\* fraction is cut off and whole multiples of 2^32 are taken away.
INT_MIN == -INT_MAX - 1
Int32(n) == [kind |-> "int32", v |-> n]
Fraction(n) == [kind |-> "fraction", v |-> n]   \* n and a fraction of n's sign
Wrapped(n) == [kind |-> "wrapped", v |-> n]     \* n + k * 2^32, k # 0
NaN == [kind |-> "nan", v |-> 0]
Infinity == [kind |-> "infinity", v |-> 0]

\* QV4::Value::toInt32: cuts the fraction off and reduces modulo 2^32 to a
\* signed 32-bit integer; NaN and the infinities give 0.
toInt32(x) == IF x.kind \in {"nan", "infinity"} THEN 0 ELSE x.v

\* int delay = toInt32(); if (delay <= 0) delay = 1;
ClampDelayNegativeOnly(d) == IF d < 0 THEN 1 ELSE d

ClampDelay(d) == IF d <= 0 THEN 1 ELSE d

WellFormed(argc, isNum) == argc >= 1 /\ isNum

\* History of a clearTimeout call: the pending one-shot registration it names.
Cancel(argc, isNum, timerId) ==
    cancelled' = IF WellFormed(argc, isNum) /\ timerId \in DOMAIN m_timeoutCallbacks
                 THEN cancelled \cup {m_timeoutCallbacks[timerId]}
                 ELSE cancelled

SetTimeoutChecksAfterStart(argc, isFn, isNum, d) ==
    /\ cur.kind # "none"
    /\ IF argc < 2 THEN
            /\ ret' = throwError("missing arguments")
            /\ UNCHANGED <<m_timeoutCallbacks, runningTimers>> /\ NoRegister
       ELSE IF ~isFn THEN
            /\ ret' = throwTypeError("callback must be a function")
            /\ UNCHANGED <<m_timeoutCallbacks, runningTimers>> /\ NoRegister
       ELSE LET delay == ClampDelay(toInt32(d)) IN
            \E timerId \in startTimer(delay) :
                IF timerId = 0 THEN
                    /\ ret' = throwError("cannot start timer")
                    /\ UNCHANGED <<m_timeoutCallbacks, runningTimers>> /\ NoRegister
                ELSE IF ~isNum THEN
                    /\ runningTimers' = Insert(runningTimers, timerId, delay)
                    /\ ret' = throwTypeError("timeout must be an integer")
                    /\ UNCHANGED m_timeoutCallbacks /\ NoRegister
                ELSE
                    /\ runningTimers' = Insert(runningTimers, timerId, delay)
                    /\ m_timeoutCallbacks' = Insert(m_timeoutCallbacks, timerId, nextToken)
                    /\ Register
                    /\ ret' = Returned(timerId)
    /\ UNCHANGED <<m_intervalCallbacks, postEventList, insertionOffset, loop, eligible,
                   cur, invoked, cancelled>>
    /\ UNCHANGED <<ignored, registryVars, moduleVars>>

setTimeout(argc, isFn, isNum, d) ==
    /\ cur.kind # "none"
    /\ IF argc < 2 THEN
            /\ ret' = throwError("missing arguments")
            /\ UNCHANGED <<m_timeoutCallbacks, runningTimers>> /\ NoRegister
       ELSE IF ~isFn THEN
            /\ ret' = throwTypeError("callback must be a function")
            /\ UNCHANGED <<m_timeoutCallbacks, runningTimers>> /\ NoRegister
       ELSE IF ~isNum THEN
            /\ ret' = throwTypeError("timeout must be an integer")
            /\ UNCHANGED <<m_timeoutCallbacks, runningTimers>> /\ NoRegister
       ELSE LET delay == ClampDelay(toInt32(d)) IN
            \E timerId \in startTimer(delay) :
                IF timerId = 0 THEN
                    /\ ret' = throwError("cannot start timer")
                    /\ UNCHANGED <<m_timeoutCallbacks, runningTimers>> /\ NoRegister
                ELSE
                    /\ runningTimers' = Insert(runningTimers, timerId, delay)
                    /\ m_timeoutCallbacks' = Insert(m_timeoutCallbacks, timerId, nextToken)
                    /\ Register
                    /\ ret' = Returned(timerId)
    /\ UNCHANGED <<m_intervalCallbacks, postEventList, insertionOffset, loop, eligible,
                   cur, invoked, cancelled>>
    /\ UNCHANGED <<ignored, registryVars, moduleVars>>

ClearTimeoutKeepsEntry(argc, isNum, timerId) ==
    /\ cur.kind # "none"
    /\ IF argc < 1 THEN
            /\ ret' = throwError("missing arguments")
            /\ UNCHANGED m_timeoutCallbacks /\ noKillTimer
       ELSE IF ~isNum THEN
            /\ ret' = throwTypeError("timeout must be an integer (at the moment)")
            /\ UNCHANGED m_timeoutCallbacks /\ noKillTimer
       ELSE /\ ret' = Returned(0)
            /\ IF timerId \in DOMAIN m_timeoutCallbacks THEN
                    /\ killTimer(timerId)
                    /\ UNCHANGED m_timeoutCallbacks
               ELSE UNCHANGED m_timeoutCallbacks /\ noKillTimer
    /\ Cancel(argc, isNum, timerId)
    /\ UNCHANGED <<m_intervalCallbacks, postEventList, insertionOffset, loop, cur, regs,
                   stackRegs, invoked>>
    /\ UNCHANGED <<ignored, registryVars, moduleVars>>

clearTimeout(argc, isNum, timerId) ==
    /\ cur.kind # "none"
    /\ IF argc < 1 THEN
            /\ ret' = throwError("missing arguments")
            /\ UNCHANGED m_timeoutCallbacks /\ noKillTimer
       ELSE IF ~isNum THEN
            /\ ret' = throwTypeError("timeout must be an integer (at the moment)")
            /\ UNCHANGED m_timeoutCallbacks /\ noKillTimer
       ELSE /\ ret' = Returned(0)
            /\ IF timerId \in DOMAIN m_timeoutCallbacks THEN
                    /\ killTimer(timerId)
                    /\ m_timeoutCallbacks' = Remove(m_timeoutCallbacks, timerId)
               ELSE UNCHANGED m_timeoutCallbacks /\ noKillTimer
    /\ Cancel(argc, isNum, timerId)
    /\ UNCHANGED <<m_intervalCallbacks, postEventList, insertionOffset, loop, cur, regs,
                   stackRegs, invoked>>
    /\ UNCHANGED <<ignored, registryVars, moduleVars>>

SetIntervalIntoTimeoutTable(argc, isFn, isNum, d) ==
    /\ cur.kind # "none"
    /\ IF argc < 2 THEN
            /\ ret' = throwError("missing arguments")
            /\ UNCHANGED <<m_timeoutCallbacks, runningTimers>> /\ NoRegister
       ELSE IF ~isFn THEN
            /\ ret' = throwTypeError("callback must be a function")
            /\ UNCHANGED <<m_timeoutCallbacks, runningTimers>> /\ NoRegister
       ELSE IF ~isNum THEN
            /\ ret' = throwTypeError("timeout must be an integer")
            /\ UNCHANGED <<m_timeoutCallbacks, runningTimers>> /\ NoRegister
       ELSE LET delay == ClampDelay(toInt32(d)) IN
            \E timerId \in startTimer(delay) :
                IF timerId = 0 THEN
                    /\ ret' = throwError("cannot start timer")
                    /\ UNCHANGED <<m_timeoutCallbacks, runningTimers>> /\ NoRegister
                ELSE
                    /\ runningTimers' = Insert(runningTimers, timerId, delay)
                    /\ m_timeoutCallbacks' = Insert(m_timeoutCallbacks, timerId, nextToken)
                    /\ Register
                    /\ ret' = Returned(timerId)
    /\ UNCHANGED <<m_intervalCallbacks, postEventList, insertionOffset, loop, eligible,
                   cur, invoked, cancelled>>
    /\ UNCHANGED <<ignored, registryVars, moduleVars>>

setInterval(argc, isFn, isNum, d) ==
    /\ cur.kind # "none"
    /\ IF argc < 2 THEN
            /\ ret' = throwError("missing arguments")
            /\ UNCHANGED <<m_intervalCallbacks, runningTimers>> /\ NoRegister
       ELSE IF ~isFn THEN
            /\ ret' = throwTypeError("callback must be a function")
            /\ UNCHANGED <<m_intervalCallbacks, runningTimers>> /\ NoRegister
       ELSE IF ~isNum THEN
            /\ ret' = throwTypeError("timeout must be an integer")
            /\ UNCHANGED <<m_intervalCallbacks, runningTimers>> /\ NoRegister
       ELSE LET delay == ClampDelay(toInt32(d)) IN
            \E timerId \in startTimer(delay) :
                IF timerId = 0 THEN
                    /\ ret' = throwError("cannot start timer")
                    /\ UNCHANGED <<m_intervalCallbacks, runningTimers>> /\ NoRegister
                ELSE
                    /\ runningTimers' = Insert(runningTimers, timerId, delay)
                    /\ m_intervalCallbacks' = Insert(m_intervalCallbacks, timerId, nextToken)
                    /\ Register
                    /\ ret' = Returned(timerId)
    /\ UNCHANGED <<m_timeoutCallbacks, postEventList, insertionOffset, loop, eligible,
                   cur, invoked, cancelled>>
    /\ UNCHANGED <<ignored, registryVars, moduleVars>>

\* The guard is the source's: the body runs when the id is NOT in the table.
clearInterval(argc, isNum, timerId) ==
    /\ cur.kind # "none"
    /\ IF argc < 1 THEN
            /\ ret' = throwError("missing arguments")
            /\ UNCHANGED m_intervalCallbacks /\ noKillTimer
       ELSE IF ~isNum THEN
            /\ ret' = throwTypeError("timeout must be an integer (at the moment)")
            /\ UNCHANGED m_intervalCallbacks /\ noKillTimer
       ELSE /\ ret' = Returned(0)
            /\ IF timerId \notin DOMAIN m_intervalCallbacks THEN
                    /\ killTimer(timerId)
                    /\ m_intervalCallbacks' = Remove(m_intervalCallbacks, timerId)
               ELSE UNCHANGED m_intervalCallbacks /\ noKillTimer
    /\ UNCHANGED <<cancelled, m_timeoutCallbacks, postEventList, insertionOffset, loop, cur, regs,
                   stackRegs, invoked>>
    /\ UNCHANGED <<ignored, registryVars, moduleVars>>

nextTick(argc, isFn) ==
    /\ cur.kind # "none"
    /\ IF argc = 0 THEN
            /\ ret' = throwError("missing arguments")
            /\ UNCHANGED postEventList /\ NoRegister
       ELSE IF ~isFn THEN
            /\ ret' = throwTypeError("callback must be a function")
            /\ UNCHANGED postEventList /\ NoRegister
       ELSE /\ Len(postEventList) < MaxQueue
            /\ postEventList' = postEvent(postEventList, insertionOffset, NextTickEvent(nextToken))
            /\ Register
            /\ ret' = Returned(0)
    /\ UNCHANGED <<m_timeoutCallbacks, m_intervalCallbacks, runningTimers,
                   insertionOffset, loop, eligible, cur, invoked, cancelled>>
    /\ UNCHANGED <<ignored, registryVars, moduleVars>>

\* The callback returns and the stack unwinds to the host loop.
Return ==
    /\ cur.kind # "none"
    /\ cur' = Idle
    /\ ret' = NoRet
    /\ UNCHANGED <<m_timeoutCallbacks, m_intervalCallbacks, runningTimers,
                   postEventList, insertionOffset, loop, eligible, regs, stackRegs,
                   invoked, cancelled>>
    /\ UNCHANGED <<ignored, registryVars, moduleVars>>

\* --------------------------------------------------------------- host loop
\* cb->call(callData): a new synchronous stack runs the callback.
Call(kind, cb) ==
    /\ cur' = [kind |-> kind, cb |-> cb]
    /\ stackRegs' = {}
    /\ invoked' = [invoked EXCEPT ![cb] = IF @ = "never" THEN "once" ELSE "again"]

\* Another component posts an event (a native module's completion).
PostOther ==
    /\ Len(postEventList) < MaxQueue
    /\ \E p \in OtherPriorities :
            postEventList' = postEvent(postEventList, insertionOffset, OtherEvent(p))
    /\ UNCHANGED <<m_timeoutCallbacks, m_intervalCallbacks, runningTimers,
                   insertionOffset, loop, eligible, cur, ret, regs, stackRegs, invoked,
                   cancelled>>
    /\ UNCHANGED <<ignored, registryVars, moduleVars>>

\* app->exec(): each iteration of the loop first sends the posted events that
\* are queued when the pass starts, then activates the timers that have expired;
\* a timer fires at most once in an iteration.
SendPostedEvents ==
    /\ cur.kind = "none"
    /\ loop = "posted"
    /\ loop' = "sending"
    /\ insertionOffset' = Len(postEventList)
    /\ UNCHANGED <<m_timeoutCallbacks, m_intervalCallbacks, runningTimers,
                   postEventList, eligible, cur, ret, regs, stackRegs, invoked,
                   cancelled>>
    /\ UNCHANGED <<ignored, registryVars, moduleVars>>

CustomEventDropsCallback ==
    /\ cur.kind = "none"
    /\ loop = "sending"
    /\ insertionOffset > 0
    /\ postEventList' = Tail(postEventList)
    /\ insertionOffset' = insertionOffset - 1
    /\ UNCHANGED <<cur, invoked, stackRegs>>
    /\ UNCHANGED <<m_timeoutCallbacks, m_intervalCallbacks, runningTimers, loop,
                   eligible, ret, regs, cancelled>>
    /\ UNCHANGED <<ignored, registryVars, moduleVars>>

customEvent ==
    /\ cur.kind = "none"
    /\ loop = "sending"
    /\ insertionOffset > 0
    /\ LET event == Head(postEventList) IN
        /\ postEventList' = Tail(postEventList)
        /\ insertionOffset' = insertionOffset - 1
        /\ IF event.type # "NextTick"
           THEN UNCHANGED <<cur, invoked, stackRegs>>
           ELSE Call("tick", event.callback)
    /\ UNCHANGED <<m_timeoutCallbacks, m_intervalCallbacks, runningTimers, loop,
                   eligible, ret, regs, cancelled>>
    /\ UNCHANGED <<ignored, registryVars, moduleVars>>

ActivateTimers ==
    /\ cur.kind = "none"
    /\ loop = "sending"
    /\ insertionOffset = 0
    /\ loop' = "timers"
    /\ eligible' = DOMAIN runningTimers
    /\ UNCHANGED <<m_timeoutCallbacks, m_intervalCallbacks, runningTimers,
                   postEventList, insertionOffset, cur, ret, regs, stackRegs, invoked,
                   cancelled>>
    /\ UNCHANGED <<ignored, registryVars, moduleVars>>

TimerEventForgetsOnUnknown(timerId) ==
    /\ cur.kind = "none"
    /\ loop = "timers"
    /\ IF timerId \in DOMAIN m_timeoutCallbacks THEN
            /\ killTimer(timerId)
            /\ m_timeoutCallbacks' = Remove(m_timeoutCallbacks, timerId)
            /\ Call("timeout", m_timeoutCallbacks[timerId])
            /\ ignored' = FALSE
       ELSE IF timerId \in DOMAIN m_intervalCallbacks THEN
            /\ Call("interval", m_intervalCallbacks[timerId])
            /\ eligible' = eligible \ {timerId}
            /\ ignored' = FALSE
            /\ UNCHANGED <<m_timeoutCallbacks, runningTimers>>
       ELSE /\ eligible' = eligible \ {timerId}
            /\ ignored' = TRUE
            /\ m_timeoutCallbacks' = <<>>
            /\ UNCHANGED <<runningTimers, cur, invoked, stackRegs>>
    /\ UNCHANGED <<m_intervalCallbacks, postEventList, insertionOffset, loop, ret, regs,
                   cancelled>>
    /\ UNCHANGED <<registryVars, moduleVars>>

timerEvent(timerId) ==
    /\ cur.kind = "none"
    /\ loop = "timers"
    /\ IF timerId \in DOMAIN m_timeoutCallbacks THEN
            /\ killTimer(timerId)
            /\ m_timeoutCallbacks' = Remove(m_timeoutCallbacks, timerId)
            /\ Call("timeout", m_timeoutCallbacks[timerId])
            /\ ignored' = FALSE
       ELSE IF timerId \in DOMAIN m_intervalCallbacks THEN
            /\ Call("interval", m_intervalCallbacks[timerId])
            /\ eligible' = eligible \ {timerId}
            /\ ignored' = FALSE
            /\ UNCHANGED <<m_timeoutCallbacks, runningTimers>>
       ELSE /\ eligible' = eligible \ {timerId}
            /\ ignored' = TRUE
            /\ UNCHANGED <<m_timeoutCallbacks, runningTimers, cur, invoked, stackRegs>>
    /\ UNCHANGED <<m_intervalCallbacks, postEventList, insertionOffset, loop, ret, regs,
                   cancelled>>
    /\ UNCHANGED <<registryVars, moduleVars>>

\* A live host timer expires.
TimerExpired == \E timerId \in eligible : timerEvent(timerId)

\* A timer event arrives for an id whose host timer is no longer live.
StaleTimerEvent == \E timerId \in TimerIds \ DOMAIN runningTimers : timerEvent(timerId)

\* The iteration ends; the loop goes round.
ProcessEventsDone ==
    /\ cur.kind = "none"
    /\ loop = "timers"
    /\ loop' = "posted"
    /\ eligible' = {}
    /\ ignored' = FALSE
    /\ UNCHANGED <<m_timeoutCallbacks, m_intervalCallbacks, runningTimers,
                   postEventList, insertionOffset, cur, ret, regs, stackRegs, invoked,
                   cancelled>>
    /\ UNCHANGED <<registryVars, moduleVars>>

\* ------------------------------------------------------------ specification
\* main() runs the script (require) before the loop starts: the first stack.
TimerInit ==
    /\ m_timeoutCallbacks = <<>>
    /\ m_intervalCallbacks = <<>>
    /\ runningTimers = <<>>
    /\ postEventList = <<>>
    /\ insertionOffset = 0
    /\ loop = "posted"
    /\ eligible = {}
    /\ cur = [kind |-> "main", cb |-> 0]
    /\ ret = NoRet
    /\ regs = 1
    /\ stackRegs = {}
    /\ invoked = [t \in Tokens |-> "never"]
    /\ cancelled = {}
    /\ ignored = FALSE

\* The argument lists a script passes to setTimeout and setInterval while the
\* loop runs: too few, or well-formed.
TimerArgs ==
    {[argc |-> 1, isFn |-> TRUE, isNum |-> FALSE, d |-> Int32(0)]}
    \cup {[argc |-> 2, isFn |-> TRUE, isNum |-> TRUE, d |-> Int32(d)] : d \in Delays}
ClearArgs ==
    {[argc |-> 0, isNum |-> FALSE, timerId |-> 0],
     [argc |-> 1, isNum |-> FALSE, timerId |-> 0]}
    \cup {[argc |-> 1, isNum |-> TRUE, timerId |-> i] : i \in 0..MaxTimerId}
TickArgs ==
    {[argc |-> 0, isFn |-> FALSE], [argc |-> 1, isFn |-> FALSE], [argc |-> 1, isFn |-> TRUE]}

SetTimeoutCall == \E a \in TimerArgs : setTimeout(a.argc, a.isFn, a.isNum, a.d)
SetIntervalCall == \E a \in TimerArgs : setInterval(a.argc, a.isFn, a.isNum, a.d)
ClearTimeoutCall == \E a \in ClearArgs : clearTimeout(a.argc, a.isNum, a.timerId)
ClearIntervalCall == \E a \in ClearArgs : clearInterval(a.argc, a.isNum, a.timerId)
NextTickCall == \E a \in TickArgs : nextTick(a.argc, a.isFn)

TimerNext ==
    \/ SetTimeoutCall
    \/ SetIntervalCall
    \/ ClearTimeoutCall
    \/ ClearIntervalCall
    \/ NextTickCall
    \/ Return
    \/ PostOther
    \/ SendPostedEvents
    \/ customEvent
    \/ ActivateTimers
    \/ TimerExpired
    \/ StaleTimerEvent
    \/ ProcessEventsDone

\* The script uses the timer calls only.
TimersOnlyNext ==
    \/ SetTimeoutCall
    \/ SetIntervalCall
    \/ ClearTimeoutCall
    \/ ClearIntervalCall
    \/ Return
    \/ SendPostedEvents
    \/ ActivateTimers
    \/ TimerExpired
    \/ StaleTimerEvent
    \/ ProcessEventsDone

\* The script defers callbacks and starts one-shot timers.
TicksNext ==
    \/ NextTickCall
    \/ SetTimeoutCall
    \/ Return
    \/ PostOther
    \/ SendPostedEvents
    \/ customEvent
    \/ ActivateTimers
    \/ TimerExpired
    \/ ProcessEventsDone

\* The argument lists the main script passes to setTimeout and setInterval:
\* every malformed shape, delays from the whole range of a 32-bit integer, and
\* numbers that are no 32-bit integers.
Int32Delays == {INT_MIN, -5, 0, 2, INT_MAX}
DelayNumbers == {Int32(d) : d \in Int32Delays} \cup {Fraction(2), Wrapped(2)}
AnyTimerArgs ==
    {[argc |-> 0, isFn |-> FALSE, isNum |-> FALSE, d |-> Int32(0)],
     [argc |-> 1, isFn |-> TRUE, isNum |-> FALSE, d |-> Int32(0)],
     [argc |-> 2, isFn |-> FALSE, isNum |-> TRUE, d |-> Int32(0)],
     [argc |-> 2, isFn |-> TRUE, isNum |-> FALSE, d |-> Int32(0)]}
    \cup {[argc |-> 2, isFn |-> TRUE, isNum |-> TRUE, d |-> x] : x \in DelayNumbers}

SetTimeoutAnyArgs == \E a \in AnyTimerArgs : setTimeout(a.argc, a.isFn, a.isNum, a.d)
SetIntervalAnyArgs == \E a \in AnyTimerArgs : setInterval(a.argc, a.isFn, a.isNum, a.d)

\* The main script makes timer calls and returns; the loop has not started.
CallsNext ==
    \/ SetTimeoutAnyArgs
    \/ SetIntervalAnyArgs
    \/ ClearTimeoutCall
    \/ Return

\* ========================================================= engine registry
MaxWrappers == 3    \* wrappers constructed in a run
V4Engines == {"qml1", "qml2"}
NoWrapper == 0

\* EnginePrivate::get: QHash::value, a null pointer when the key is absent.
get(v4) == IF v4 \in DOMAIN m_nodeEngines THEN m_nodeEngines[v4] ELSE NoWrapper

\* The process runs until a null pointer is dereferenced.
NoException == [kind |-> "none"]
Crashed == [kind |-> "crashed"]
Running == exception # Crashed

\* A caller looks the wrapper of a host engine up (errnoexception.cpp:12).
Lookup(v4) ==
    /\ Running
    /\ found' = get(v4)
    /\ UNCHANGED <<m_nodeEngines, m_v4, alive, exception>>
    /\ UNCHANGED <<timerVars, moduleVars>>

\* EnginePrivate::EnginePrivate: QHash::insert replaces the value of a present key.
EnginePrivateCtor(v4) ==
    /\ Running
    /\ Len(m_v4) < MaxWrappers
    /\ LET this == Len(m_v4) + 1 IN
        /\ m_v4' = Append(m_v4, v4)
        /\ alive' = alive \cup {this}
        /\ m_nodeEngines' = Insert(m_nodeEngines, v4, this)
    /\ UNCHANGED <<found, exception>>
    /\ UNCHANGED <<timerVars, moduleVars>>

\* EnginePrivate::~EnginePrivate
EnginePrivateDtor(this) ==
    /\ Running
    /\ this \in alive
    /\ alive' = alive \ {this}
    /\ m_nodeEngines' = Remove(m_nodeEngines, m_v4[this])
    /\ UNCHANGED <<m_v4, found, exception>>
    /\ UNCHANGED <<timerVars, moduleVars>>

\* ------------------------------------------------------------- error bridge
ErrorNos == {2, 13}           \* ENOENT, EACCES
Syscalls == {"", "open"}
Present(string) == IF string = "" THEN {} ELSE {string}

\* Heap::ErrnoExceptionObject::ErrnoExceptionObject: the object gets the
\* internal class of the wrapper the registry names for v4, the errno property,
\* and the syscall and path properties when the strings are not empty.  With no
\* registry entry for v4 the class is read through a null pointer: the process
\* stops, or the object is built on whatever the read gave.
ErrnoExceptionObject(v4, errorNo, syscall, path) ==
    IF get(v4) # NoWrapper
    THEN {[kind |-> "errno", class |-> get(v4), errno |-> errorNo,
           syscall |-> Present(syscall), path |-> Present(path)]}
    ELSE {Crashed,
          [kind |-> "errno", class |-> NoWrapper, errno |-> errorNo,
           syscall |-> Present(syscall), path |-> Present(path)]}

\* EnginePrivate::throwErrnoException: allocates the object, without a path,
\* and throws it on the wrapper's engine.
throwErrnoException(this, errorNo, syscall) ==
    /\ Running
    /\ this \in alive
    /\ exception' \in ErrnoExceptionObject(m_v4[this], errorNo, syscall, "")
    /\ UNCHANGED <<m_nodeEngines, m_v4, alive, found>>
    /\ UNCHANGED <<timerVars, moduleVars>>

\* No wrapper has been constructed yet.
RegistryInit ==
    /\ m_nodeEngines = <<>>
    /\ m_v4 = <<>>
    /\ alive = {}
    /\ found = NoWrapper
    /\ exception = NoException

\* main(): one QQmlEngine, wrapped by one NodeQml::Engine.
OneEngineInit ==
    /\ m_nodeEngines = [v4 \in {"qml1"} |-> 1]
    /\ m_v4 = <<"qml1">>
    /\ alive = {1}
    /\ found = NoWrapper
    /\ exception = NoException

Construct == \E v4 \in V4Engines : EnginePrivateCtor(v4)
Destroy == \E this \in alive : EnginePrivateDtor(this)

GetCall == \E v4 \in V4Engines : Lookup(v4)
ThrowCall ==
    \E this \in alive, errorNo \in ErrorNos, syscall \in Syscalls :
        throwErrnoException(this, errorNo, syscall)

RegistryNext ==
    \/ Construct
    \/ Destroy
    \/ GetCall
    \/ ThrowCall

\* ============================================================ module cache
MaxModuleObjects == 3   \* module objects allocated in a run

FileIds == {"a.js", "b.js"}
MissingIds == {"nowhere"}

\* EnginePrivate::registerModules: the four core modules, one object each.
m_coreModules == [fs |-> -1, os |-> -2, path |-> -3, util |-> -4]
RequireIds == FileIds \cup MissingIds \cup {"fs", "util"}

hasNativeModule(id) == id \in DOMAIN m_coreModules
nativeModule(id) == m_coreModules[id]

\* Q_ASSERT(!m_cachedModules.contains(id)), then QHash::insert.
cacheModule(id, module) == m_cachedModules' = Insert(m_cachedModules, id, module)

HasCachedModuleNever(id) == FALSE

HasCachedModuleWhenLoaded(id) ==
    id \in DOMAIN m_cachedModules /\ m_cachedModules[id] \in loaded

hasCachedModule(id) == id \in DOMAIN m_cachedModules

cachedModule(id) == m_cachedModules[id]

\* A require call returns an exports reference (a module object stands for its
\* exports object).
Give(id, exports) ==
    /\ requireRet' = Returned(exports)
    /\ results' = [results EXCEPT ![id] =
                        [refs |-> @.refs \cup {exports},
                         calls |-> IF @.calls = "none" THEN "one" ELSE "more"]]

\* ModuleObject::require, called by the host (Engine::require) or by the module
\* body on top of the stack, up to the start of the new module's body.
require(id) ==
    /\ IF hasNativeModule(id) THEN
            /\ Give(id, nativeModule(id))
            /\ UNCHANGED <<m_cachedModules, frames, created, loaded, executions>>
       ELSE IF hasCachedModule(id) THEN
            /\ Give(id, cachedModule(id))
            /\ UNCHANGED <<m_cachedModules, frames, created, loaded, executions>>
       ELSE IF id \notin FileIds THEN
            /\ requireRet' = Thrown("ResolutionError")
            /\ UNCHANGED <<m_cachedModules, frames, created, loaded, executions, results>>
       ELSE /\ created < MaxModuleObjects
            /\ created' = created + 1
            /\ cacheModule(id, created + 1)
            /\ frames' = Append(frames, [id |-> id, module |-> created + 1])
            /\ executions' = [executions EXCEPT ![id] = IF @ = "never" THEN "once" ELSE "again"]
            /\ requireRet' = NoRet
            /\ UNCHANGED <<loaded, results>>
    /\ UNCHANGED <<timerVars, registryVars>>

\* The body on top of the stack runs to its end: the record is marked loaded and
\* the require that started it returns the exports.
BodyDone ==
    /\ frames # <<>>
    /\ LET top == frames[Len(frames)] IN
        /\ frames' = SubSeq(frames, 1, Len(frames) - 1)
        /\ loaded' = loaded \cup {top.module}
        /\ Give(top.id, top.module)
    /\ UNCHANGED <<m_cachedModules, created, executions>>
    /\ UNCHANGED <<timerVars, registryVars>>

\* The body on top of the stack raises: the record stays in the store, and the
\* require that started it raises in its caller.
BodyThrows ==
    /\ frames # <<>>
    /\ frames' = SubSeq(frames, 1, Len(frames) - 1)
    /\ requireRet' = Thrown("Error")
    /\ UNCHANGED <<m_cachedModules, created, loaded, executions, results>>
    /\ UNCHANGED <<timerVars, registryVars>>

ModuleInit ==
    /\ m_cachedModules = <<>>
    /\ frames = <<>>
    /\ created = 0
    /\ loaded = {}
    /\ requireRet = NoRet
    /\ executions = [id \in FileIds |-> "never"]
    /\ results = [id \in RequireIds |-> [refs |-> {}, calls |-> "none"]]

RequireCall == \E id \in RequireIds : require(id)

ModuleNext ==
    \/ RequireCall
    \/ BodyDone
    \/ BodyThrows

\* =========================================================== specifications
vars == <<timerVars, registryVars, moduleVars>>

Init == TimerInit /\ OneEngineInit /\ ModuleInit
Next == TimerNext

\* The engine's timers, deferred callbacks and host loop.
Spec == Init /\ [][Next]_vars
\* The same, with a script that uses the timer calls only.
SpecTimers == Init /\ [][TimersOnlyNext]_vars
\* The same, with a script that defers callbacks and starts one-shot timers.
SpecTicks == Init /\ [][TicksNext]_vars
\* The module loader of one engine.
SpecModules == Init /\ [][ModuleNext]_vars
\* The process-wide registry, from before the first wrapper is constructed.
\* The same under a fair host loop: a running callback returns, and the loop
\* goes on with the step of the iteration that is due.
SpecTicksFair ==
    /\ Init /\ [][TicksNext]_vars
    /\ WF_vars(Return)
    /\ WF_vars(SendPostedEvents)
    /\ WF_vars(customEvent)
    /\ WF_vars(ActivateTimers)
    /\ WF_vars(ProcessEventsDone)

\* The main script passes every kind of argument list.
SpecCalls == Init /\ [][CallsNext]_vars

InitRegistry == TimerInit /\ RegistryInit /\ ModuleInit
SpecRegistry == InitRegistry /\ [][RegistryNext]_vars

\* ------------------------------------------------------------------ claims
Dispatched(kinds) == cur.kind = "none" /\ cur'.kind \in kinds
IsTick(e) == e.type = "NextTick"
Tables == <<m_timeoutCallbacks, m_intervalCallbacks, runningTimers>>

\* C1: clearInterval(id) with the id of a registered repeating timer removes the
\* id from the interval table and stops the host timer, so that no later dispatch
\* invokes the callback.
C1_ClearIntervalCancels ==
    [][\A id \in TimerIds :
          (id \in DOMAIN m_intervalCallbacks /\ clearInterval(1, TRUE, id))
              => (id \notin DOMAIN m_intervalCallbacks' /\ id \notin DOMAIN runningTimers')]_vars

\* C2: clearTimeout(id) and clearInterval(id) with a number that is not a key of
\* their own table raise nothing and leave both tables and the live host timers
\* as they were.
C2_UnknownIdNoEffect ==
    [][\A id \in 0..MaxTimerId :
          /\ (id \notin DOMAIN m_timeoutCallbacks /\ clearTimeout(1, TRUE, id))
                => (ret'.exc = "none" /\ UNCHANGED Tables)
          /\ (id \notin DOMAIN m_intervalCallbacks /\ clearInterval(1, TRUE, id))
                => (ret'.exc = "none" /\ UNCHANGED Tables)]_vars

\* C3: clearTimeout(id) with the id of a pending one-shot timer removes the id
\* from the timeout table and stops the host timer, and no later dispatch invokes
\* the callback of a registration so cancelled.
C3_ClearTimeoutCancels ==
    [][/\ \A id \in TimerIds :
            (id \in DOMAIN m_timeoutCallbacks /\ clearTimeout(1, TRUE, id))
                => (id \notin DOMAIN m_timeoutCallbacks' /\ id \notin DOMAIN runningTimers')
       /\ Dispatched({"timeout", "interval", "tick"}) => cur'.cb \notin cancelled]_vars

\* C3 witness: a one-shot was cancelled in an earlier stack, its id has been
\* handed out again, and the one-shot that got the id is the one now running.
C3_Witness ==
    /\ cancelled # {}
    /\ cur.kind = "timeout"
    /\ ret = NoRet
    /\ regs > MaxRegs

\* C4: a firing one-shot is out of the timeout table and its host timer stopped
\* before its callback runs, the callback runs once, and a timer the callback
\* starts gets an id that is a key of neither table.
C4_FiredOneShotIsGone ==
    [][/\ \A id \in TimerIds :
            (id \in DOMAIN m_timeoutCallbacks /\ timerEvent(id))
                => /\ id \notin DOMAIN m_timeoutCallbacks'
                   /\ id \notin DOMAIN runningTimers'
                   /\ invoked[m_timeoutCallbacks[id]] = "never"
       /\ (cur.kind = "timeout" /\ (SetTimeoutCall \/ SetIntervalCall) /\ regs' # regs)
            => ret'.value \notin (DOMAIN m_timeoutCallbacks \cup DOMAIN m_intervalCallbacks)]_vars

\* C5: deferred callbacks of one stack run in the order of their nextTick calls,
\* and while one of them is pending no callback of a timer that was started
\* outside that stack is invoked.
C5_TicksBeforeOutsideTimers ==
    [][/\ (customEvent /\ cur'.kind = "tick")
            => \A i \in 2..Len(postEventList) :
                    IsTick(postEventList[i]) => postEventList[i].callback > cur'.cb
       /\ Dispatched({"timeout", "interval"})
            => \A i \in 1..Len(postEventList) :
                    (IsTick(postEventList[i]) /\ postEventList[i].callback \in stackRegs)
                        => cur'.cb \in stackRegs]_vars

\* C6 as claimed: a wake-up is never ahead of an event that was posted before it.
C6_NeverOvertakes ==
    \A i, j \in 1..Len(postEventList) :
        (i < j /\ IsTick(postEventList[i]) /\ ~IsTick(postEventList[j]))
            => postEventList[i].stamp < postEventList[j].stamp

\* C6: the wake-up is posted at INT_MAX, the highest priority: among the events
\* that the dispatch pass in progress has not committed to, no event of a
\* priority below INT_MAX is ahead of a wake-up.
C6_WakeUpAheadOfLowerPriority ==
    \A i, j \in (insertionOffset + 1)..Len(postEventList) :
        (i < j /\ IsTick(postEventList[j])) => postEventList[i].priority >= INT_MAX

\* C6 witness: a wake-up sits ahead of a normal-priority event posted before it.
C6_Witness ==
    \E i, j \in 1..Len(postEventList) :
        /\ i < j
        /\ IsTick(postEventList[i])
        /\ ~IsTick(postEventList[j])
        /\ postEventList[j].stamp <= postEventList[i].stamp

\* C7: deferred callbacks are invoked in the order of their nextTick calls: the
\* one dispatched was accepted before every one still pending (tokens are handed
\* out in call order), also when the pending one was enqueued by a deferred
\* callback.
C7_GlobalFifo ==
    [][(customEvent /\ cur'.kind = "tick")
          => \A i \in 1..Len(postEventList') :
                IsTick(postEventList'[i]) => postEventList'[i].callback > cur'.cb]_vars

\* C7 witness: a deferred callback is running, has enqueued another, and that
\* one is behind a callback enqueued before the running one started.
C7_Witness ==
    /\ cur.kind = "tick"
    /\ Len(postEventList) = 2
    /\ IsTick(postEventList[1]) /\ postEventList[1].callback \notin stackRegs
    /\ IsTick(postEventList[2]) /\ postEventList[2].callback \in stackRegs

\* C8: a host engine has at most one live registered context: constructing a
\* wrapper for an engine that has one fails, leaving the registry entry and the
\* set of live contexts as they were.
C8_OneContextPerEngine ==
    [][/\ \A v4 \in V4Engines :
            (v4 \in DOMAIN m_nodeEngines /\ EnginePrivateCtor(v4))
                => UNCHANGED <<m_nodeEngines, alive>>
       /\ \A v4 \in V4Engines : Cardinality({w \in alive' : m_v4'[w] = v4}) <= 1]_vars

\* C9: all require(id) calls return one and the same exports reference, the body
\* of id runs at most once, and a cached record is never replaced or removed.
C9_CacheCoherent ==
    [][/\ \A id \in RequireIds : Cardinality(results'[id].refs) <= 1
       /\ \A id \in FileIds : executions'[id] # "again"
       /\ \A id \in DOMAIN m_cachedModules :
            id \in DOMAIN m_cachedModules' /\ m_cachedModules'[id] = m_cachedModules[id]]_vars

\* C9 witness: for both files more than one require call has returned, one of
\* them after the file's body raised.
C9_Witness ==
    /\ \A id \in FileIds : results[id].calls = "more"
    /\ \E id \in FileIds : cachedModule(id) \notin loaded
    /\ frames = <<>>

InProgress(id) == \E i \in 1..Len(frames) : frames[i].id = id

\* C10: require(A) while A's body is in progress starts no body and returns the
\* record that was stored before A's body started; no identifier is on the stack
\* of running bodies twice, so the stack is never deeper than the files are many.
C10_CircularTerminates ==
    [][/\ \A id \in FileIds :
            (InProgress(id) /\ require(id))
                => /\ frames' = frames
                   /\ created' = created
                   /\ \E i \in 1..Len(frames) :
                        frames[i].id = id /\ requireRet' = Returned(frames[i].module)
       /\ \A i, j \in 1..Len(frames') : frames'[i].id = frames'[j].id => i = j
       /\ Len(frames') <= Cardinality(FileIds)]_vars

\* C10 witness: a.js required b.js, b.js required a.js and got a.js's record
\* while a.js's body had not finished.
C10_Witness ==
    /\ Len(frames) = 2
    /\ frames[1].id = "a.js" /\ frames[2].id = "b.js"
    /\ frames[1].module \notin loaded
    /\ requireRet = Returned(frames[1].module)

Malformed(a) == a.argc < 2 \/ ~a.isFn \/ ~a.isNum

\* C11: setTimeout and setInterval with fewer than two arguments, a first
\* argument that is no function or a second that is no number raise an error,
\* and leave both tables and the live host timers as they were.
C11_ArgumentErrorBeforeAllocation ==
    [][\A a \in AnyTimerArgs :
        (Malformed(a) /\ (setTimeout(a.argc, a.isFn, a.isNum, a.d)
                            \/ setInterval(a.argc, a.isFn, a.isNum, a.d)))
            => /\ ret'.exc \in {"Error", "TypeError"}
               /\ ret'.msg \in {"missing arguments", "callback must be a function",
                                "timeout must be an integer"}
               /\ UNCHANGED <<m_timeoutCallbacks, m_intervalCallbacks, runningTimers>>]_vars

\* C11 witness: a call with a first argument that is no function has failed
\* while a host timer was live.
C11_Witness ==
    /\ ret = throwTypeError("callback must be a function")
    /\ DOMAIN runningTimers # {}

HostCannotAllocate == TimerIds \ DOMAIN runningTimers = {}

\* C12: a well-formed setTimeout or setInterval fails with "cannot start timer"
\* and records nothing when the host has no timer to give; otherwise the call
\* returns the id the host gave and the callback is recorded under that id, in
\* the timeout table by setTimeout and in the interval table by setInterval.
C12_RecordedUnderReturnedId ==
    [][\A a \in AnyTimerArgs : ~Malformed(a) =>
        /\ setTimeout(a.argc, a.isFn, a.isNum, a.d) =>
            IF HostCannotAllocate
            THEN /\ ret' = throwError("cannot start timer")
                 /\ UNCHANGED <<m_timeoutCallbacks, m_intervalCallbacks>>
            ELSE /\ ret'.exc = "none"
                 /\ ret'.value \in DOMAIN runningTimers' \ DOMAIN runningTimers
                 /\ m_timeoutCallbacks' = Insert(m_timeoutCallbacks, ret'.value, nextToken)
                 /\ m_intervalCallbacks' = m_intervalCallbacks
        /\ setInterval(a.argc, a.isFn, a.isNum, a.d) =>
            IF HostCannotAllocate
            THEN /\ ret' = throwError("cannot start timer")
                 /\ UNCHANGED <<m_timeoutCallbacks, m_intervalCallbacks>>
            ELSE /\ ret'.exc = "none"
                 /\ ret'.value \in DOMAIN runningTimers' \ DOMAIN runningTimers
                 /\ m_intervalCallbacks' = Insert(m_intervalCallbacks, ret'.value, nextToken)
                 /\ m_timeoutCallbacks' = m_timeoutCallbacks]_vars

\* C12 witness: the host had no timer left and the call failed, with earlier
\* registrations of both kinds in place.
C12_Witness ==
    /\ ret = throwError("cannot start timer")
    /\ m_timeoutCallbacks # <<>>
    /\ m_intervalCallbacks # <<>>

\* C13: for a delay d that is a 32-bit integer, the host timer is started with
\* interval 1 when d <= 0 and with d when d > 0; no live host timer has an
\* interval below 1.
C13_DelayClamped ==
    [][/\ \A id \in DOMAIN runningTimers' : runningTimers'[id] >= 1
       /\ \A d \in Int32Delays :
            ((setTimeout(2, TRUE, TRUE, Int32(d)) \/ setInterval(2, TRUE, TRUE, Int32(d)))
                /\ ret'.exc = "none")
            => runningTimers'[ret'.value] = IF d <= 0 THEN 1 ELSE d]_vars

\* C13 witness: a timer started with a delay of at most 0 and one started with
\* the largest delay are live.
C13_Witness ==
    {runningTimers[id] : id \in DOMAIN runningTimers} = {1, INT_MAX}

\* C14: the exception throwErrnoException raises has errno E, a syscall
\* property equal to s exactly when s is not empty, and no path property, and
\* the call always ends with the exception raised.
C14_ErrnoExceptionFields ==
    [][\A this \in alive, E \in ErrorNos, s \in Syscalls :
        throwErrnoException(this, E, s)
            => /\ exception'.kind = "errno"
               /\ exception'.errno = E
               /\ exception'.syscall = (IF s = "" THEN {} ELSE {s})
               /\ exception'.path = {}]_vars

\* C20: EnginePrivate::get(v4) returns no wrapper only when no live wrapper
\* wraps v4, and otherwise a live wrapper of v4; a teardown leaves the entry
\* another live wrapper relies on in place.
C20_LookupFindsLiveContext ==
    \A v4 \in V4Engines :
        IF get(v4) = NoWrapper
        THEN \A w \in alive : m_v4[w] # v4
        ELSE get(v4) \in alive /\ m_v4[get(v4)] = v4

Queued(t) == \E i \in 1..Len(postEventList) :
                IsTick(postEventList[i]) /\ postEventList[i].callback = t

QueuedNext(t) == \E i \in 1..Len(postEventList') :
                    IsTick(postEventList'[i]) /\ postEventList'[i].callback = t

\* C15: nextTick invokes nothing itself and posts no wake-up when its argument
\* check fails; the dispatch of a wake-up invokes its callback, which has not
\* been invoked before, and nothing else; under a fair host loop every queued
\* callback is invoked.
C15_InvokedExactlyOnce ==
    /\ [][/\ \A a \in TickArgs :
                nextTick(a.argc, a.isFn)
                    => /\ UNCHANGED <<cur, invoked>>
                       /\ IF a.argc = 0 \/ ~a.isFn
                          THEN ret'.exc # "none" /\ UNCHANGED postEventList
                          ELSE QueuedNext(nextToken) /\ invoked[nextToken] = "never"
          /\ (customEvent /\ IsTick(Head(postEventList)))
                => LET cb == Head(postEventList).callback IN
                    /\ cur' = [kind |-> "tick", cb |-> cb]
                    /\ invoked[cb] = "never"
                    /\ invoked' = [invoked EXCEPT ![cb] = "once"]
                    /\ ~QueuedNext(cb)
          /\ \A t \in Tokens : QueuedNext(t) => invoked'[t] = "never"]_vars
    /\ \A t \in Tokens : Queued(t) ~> (invoked[t] = "once")

\* C15 witness: a deferred callback is running, it has been invoked once, and a
\* nextTick call it made with a non-function has failed, with nothing queued.
C15_Witness ==
    /\ cur.kind = "tick"
    /\ invoked[cur.cb] = "once"
    /\ ret = throwTypeError("callback must be a function")
    /\ postEventList = <<>>

\* C16: a timer event is looked up in the timeout table first and in the
\* interval table second; the expiry of a live host timer whose id is in the
\* interval table invokes that entry's callback and leaves the entry and the
\* host timer in place.
C16_IntervalFiresAgain ==
    [][\A id \in TimerIds : timerEvent(id) =>
        /\ id \in DOMAIN m_timeoutCallbacks
            => cur' = [kind |-> "timeout", cb |-> m_timeoutCallbacks[id]]
        /\ (id \notin DOMAIN m_timeoutCallbacks /\ id \in DOMAIN m_intervalCallbacks)
            => cur' = [kind |-> "interval", cb |-> m_intervalCallbacks[id]]
        /\ (id \in DOMAIN m_intervalCallbacks /\ id \in DOMAIN runningTimers)
            => /\ cur'.cb = m_intervalCallbacks[id]
               /\ id \in DOMAIN m_intervalCallbacks'
               /\ id \in DOMAIN runningTimers']_vars

\* C17: a timer event whose id is in neither table invokes no callback, raises
\* nothing and leaves both tables and the live host timers as they were.
C17_UnknownTimerEventIgnored ==
    [][\A id \in TimerIds :
        (id \notin DOMAIN m_timeoutCallbacks /\ id \notin DOMAIN m_intervalCallbacks
            /\ timerEvent(id))
        => UNCHANGED <<cur, invoked, ret, m_timeoutCallbacks, m_intervalCallbacks,
                       runningTimers>>]_vars

\* C17 witness: a timer event was left unhandled while registrations of both
\* kinds were pending.
C17_Witness ==
    /\ ignored
    /\ m_timeoutCallbacks # <<>>
    /\ m_intervalCallbacks # <<>>

\* C18: the live host timers are the ids of the timeout table and of the
\* interval table together.
C18_TimersMatchTables ==
    DOMAIN runningTimers = DOMAIN m_timeoutCallbacks \cup DOMAIN m_intervalCallbacks

\* C19: no timer id is a key of the timeout table and of the interval table.
C19_TablesDisjoint ==
    DOMAIN m_timeoutCallbacks \cap DOMAIN m_intervalCallbacks = {}

====
